---- MODULE Spec2Model ----
(***************************************************************************)
(* A model of the 2fy command line converter (src/main.go).                *)
(*                                                                         *)
(* src/main.go holds two revisions of the program:                         *)
(*   variant 1 (lines 1-146): the single sub-command yaml2txt, whose       *)
(*     Action ends the process with logrus.Fatal on a read or decode       *)
(*     error and whose main ends it with logrus.Fatal when app.Run         *)
(*     returns an error;                                                   *)
(*   variant 2 (lines 148-355): yaml2txt and yaml2json, whose Actions      *)
(*     return their errors to app.Run and whose main prints the error      *)
(*     app.Run returns.                                                    *)
(* One run of the program is one behaviour: env holds what the run is      *)
(* given (command line, standard input, file system), run holds the        *)
(* process.  Bytes are sequences of one-character strings.                 *)
(***************************************************************************)
EXTENDS Integers, Sequences, FiniteSets, TLC

VARIABLES env, run, twin

vars == <<env, run, twin>>

(***************************************************************************)
(* Bounds of the model.                                                    *)
(***************************************************************************)
\* The destinations of the model accept 0..MaxBudget bytes before a write
\* fails, or every byte (NoLimit).
MaxBudget == 2

NoLimit == 0 - 1

(***************************************************************************)
(* Values: what yaml.Unmarshal stores in an interface{} / a map.           *)
(***************************************************************************)
Nil == [t |-> "nil"]

Num(nt, n) == [t |-> nt, n |-> n]

Str(cs) == [t |-> "str", s |-> cs]

Bool(b) == [t |-> "bool", b |-> b]

SeqV(es) == [t |-> "seq", es |-> es]

MapV(kvs) == [t |-> "map", kvs |-> kvs]

KV(k, v) == [k |-> k, v |-> v]

foo == <<"f", "o", "o">>

bar == <<"b", "a", "r">>

\* The input documents of the model, by their YAML text.
Docs ==
    { "", "null", "foo: 42", "foo: 1000000", "foo: bar", "foo: true",
      "foo: null", "bar: 1", "bar: 1\nfoo: 2", "foo: [1, 2, 3]",
      "foo: {a: 1}", "- 1\n- 2", "42", "foo: [" }

\* Malformed YAML: the decoder reports an error.
Malformed(doc) == doc = "foo: ["

\* The root value of a well-formed document; nt is the type the decoder
\* gives a whole number ("int" for gopkg.in/yaml.v2, "float" for
\* github.com/ghodss/yaml, which decodes through encoding/json).
DocValue(doc, nt) ==
    CASE doc = "" -> Nil
      [] doc = "null" -> Nil
      [] doc = "foo: 42" -> MapV(<<KV(foo, Num(nt, 42))>>)
      [] doc = "foo: 1000000" -> MapV(<<KV(foo, Num(nt, 1000000))>>)
      [] doc = "foo: bar" -> MapV(<<KV(foo, Str(bar))>>)
      [] doc = "foo: true" -> MapV(<<KV(foo, Bool(TRUE))>>)
      [] doc = "foo: null" -> MapV(<<KV(foo, Nil)>>)
      [] doc = "bar: 1" -> MapV(<<KV(bar, Num(nt, 1))>>)
      [] doc = "bar: 1\nfoo: 2" ->
            MapV(<<KV(bar, Num(nt, 1)), KV(foo, Num(nt, 2))>>)
      [] doc = "foo: [1, 2, 3]" ->
            MapV(<<KV(foo, SeqV(<<Num(nt, 1), Num(nt, 2), Num(nt, 3)>>))>>)
      [] doc = "foo: {a: 1}" ->
            MapV(<<KV(foo, MapV(<<KV(<<"a">>, Num(nt, 1))>>))>>)
      [] doc = "- 1\n- 2" -> SeqV(<<Num(nt, 1), Num(nt, 2)>>)
      [] doc = "42" -> Num(nt, 42)
      [] OTHER -> Nil

(***************************************************************************)
(* fmt's %v rendering (fmt.Sprintf("%v\n", m), and fmt.Fprint inside the   *)
(* jsonpath engine's evalToText).                                          *)
(***************************************************************************)
Min(a, b) == IF a < b THEN a ELSE b

DigitChar(d) == <<"0", "1", "2", "3", "4", "5", "6", "7", "8", "9">>[d + 1]

RECURSIVE Digits(_)
\* The decimal digits of a natural number.
Digits(n) == IF n < 10 THEN <<DigitChar(n)>>
             ELSE Digits(n \div 10) \o <<DigitChar(n % 10)>>

RECURSIVE StripZeros(_)
\* A digit string without its trailing zeros.
StripZeros(ds) ==
    IF Len(ds) > 1 /\ ds[Len(ds)] = "0"
    THEN StripZeros(SubSeq(ds, 1, Len(ds) - 1))
    ELSE ds

\* %v of a float64 holding a whole number n >= 0: strconv's 'g' format with
\* the shortest precision, which switches to the exponent form once the
\* decimal exponent reaches 6 (42 -> 42, 1000000 -> 1e+06).
FmtFloat(n) ==
    LET ds == Digits(n)
        ex == Len(ds) - 1
        ms == StripZeros(ds)
    IN  IF ex < 6 THEN ds
        ELSE <<ms[1]>>
             \o (IF Len(ms) > 1 THEN <<".">> \o SubSeq(ms, 2, Len(ms)) ELSE <<>>)
             \o <<"e", "+">>
             \o (IF ex < 10 THEN <<"0">> ELSE <<>>) \o Digits(ex)

RECURSIVE Fmt(_)
\* %v of a decoded value: strings bare, nil as <nil>, slices as [a b c],
\* maps as map[k:v k2:v2] (keys in sorted order).
Fmt(v) ==
    LET RECURSIVE Elems(_)
        Elems(es) ==
            IF es = <<>> THEN <<>>
            ELSE Fmt(Head(es))
                 \o (IF Len(es) > 1 THEN <<" ">> ELSE <<>>)
                 \o Elems(Tail(es))
        RECURSIVE Pairs(_)
        Pairs(kvs) ==
            IF kvs = <<>> THEN <<>>
            ELSE Head(kvs).k \o <<":">> \o Fmt(Head(kvs).v)
                 \o (IF Len(kvs) > 1 THEN <<" ">> ELSE <<>>)
                 \o Pairs(Tail(kvs))
    IN  CASE v.t = "nil" -> <<"<", "n", "i", "l", ">">>
          [] v.t = "int" -> Digits(v.n)
          [] v.t = "float" -> FmtFloat(v.n)
          [] v.t = "str" -> v.s
          [] v.t = "bool" -> IF v.b THEN <<"t", "r", "u", "e">>
                             ELSE <<"f", "a", "l", "s", "e">>
          [] v.t = "seq" -> <<"[">> \o Elems(v.es) \o <<"]">>
          [] v.t = "map" -> <<"m", "a", "p", "[">> \o Pairs(v.kvs) \o <<"]">>

\* %v of a map[string]interface{} variable; a nil map prints as map[].
FmtMap(m) == IF m.t = "nil" THEN <<"m", "a", "p", "[", "]">> ELSE Fmt(m)

(***************************************************************************)
(* The YAML decoders.  Each returns [err, object].                         *)
(***************************************************************************)
\* yaml.Unmarshal(fileContent, &object) with var object interface{}
\* (github.com/ghodss/yaml): any well-formed document decodes; an empty or
\* null document leaves object nil.
UnmarshalObject(doc) ==
    IF Malformed(doc) THEN [err |-> "unmarshal", object |-> Nil]
    ELSE [err |-> "nil", object |-> DocValue(doc, "float")]

\* yaml.Unmarshal(fileContent, &contentStructure) with
\* var contentStructure map[string]interface{}: the root has to be a mapping
\* (or null, which leaves the map nil).  nt as in DocValue.
UnmarshalMap(doc, nt) ==
    IF Malformed(doc) \/ DocValue(doc, nt).t \notin {"nil", "map"}
    THEN [err |-> "unmarshal", object |-> Nil]
    ELSE [err |-> "nil", object |-> DocValue(doc, nt)]

(***************************************************************************)
(* The jsonpath engine (k8s.io/client-go/util/jsonpath) on the template    *)
(* of the yaml2json Action.                                                *)
(***************************************************************************)
\* tmpl := "{.foo}"
tmpl == "{.foo}"

\* j.Parse(tmpl): the template is one field node; [err, field].
JSONPathParse(t) ==
    IF t = "{.foo}" THEN [err |-> "nil", field |-> foo]
    ELSE [err |-> "parse", field |-> <<>>]

\* The values a mapping stores under key k (zero or one).
Lookup(kvs, k) ==
    LET hits == {i \in 1..Len(kvs) : kvs[i].k = k}
    IN  IF hits = {} THEN <<>> ELSE <<kvs[CHOOSE i \in hits : TRUE].v>>

\* evalField on the root: a mapping yields the value under the key, also
\* when that value is nil; every other input yields nothing; and no result
\* at all is the error "<field> is not found" (allowMissingKeys is off).
EvalField(object, field) ==
    LET results == IF object.t = "map" THEN Lookup(object.kvs, field) ELSE <<>>
    IN  IF results = <<>> THEN [err |-> "execute", results |-> <<>>]
        ELSE [err |-> "nil", results |-> results]

RECURSIVE PrintResults(_)
\* PrintResults: each result as fmt.Fprint prints it, joined by one space.
PrintResults(results) ==
    IF results = <<>> THEN <<>>
    ELSE Fmt(Head(results))
         \o (IF Len(results) > 1 THEN <<" ">> ELSE <<>>)
         \o PrintResults(Tail(results))

\* j.Execute(buffer, object): [err, out], out the bytes put in the buffer.
JSONPathExecute(object, field) ==
    LET found == EvalField(object, field)
    IN  IF found.err # "nil" THEN [err |-> found.err, out |-> <<>>]
        ELSE [err |-> "nil", out |-> PrintResults(found.results)]

(***************************************************************************)
(* One run.                                                                *)
(*   env: variant (which revision of main.go), cmd (the sub-command),      *)
(*        debug (--debug), inputPath / outputPath (the flag variables),    *)
(*        stdin ("pipe", "tty", or "closed": os.Stdin.Stat() fails), doc   *)
(*        (the bytes the input source holds), readFails (ioutil.ReadAll    *)
(*        reports an error), budget (the bytes the destination accepts     *)
(*        before a write fails).                                           *)
(*   A process record: pc (position), level and log (logrus), errw         *)
(*        (lines on cli.ErrWriter), stdinRead / fileRead, fileContent,     *)
(*        object, parsed / executed (the jsonpath calls made), err (the    *)
(*        error in hand, "nil" for none), writeCalls, outputContent, dest  *)
(*        (the bytes in the destination), exitCode (-1 while running).     *)
(***************************************************************************)
InputPaths == {"", "in.yaml", "missing.yaml"}

OutputPaths == {"", "out.json", "nodir/out.json"}

Envs ==
    { e \in [ variant : {1, 2}, cmd : {"yaml2txt", "yaml2json"},
              debug : BOOLEAN, inputPath : InputPaths,
              outputPath : OutputPaths, stdin : {"pipe", "tty", "closed"},
              doc : Docs, readFails : BOOLEAN,
              budget : (0..MaxBudget) \cup {NoLimit} ] :
        e.variant = 1 => e.cmd = "yaml2txt" }

InitRun ==
    [ pc |-> "preload", level |-> "info", log |-> <<>>, errw |-> <<>>,
      stdinRead |-> FALSE, fileRead |-> FALSE, fileContent |-> "",
      object |-> Nil, parsed |-> FALSE, executed |-> FALSE, err |-> "nil",
      writeCalls |-> 0, outputContent |-> <<>>, dest |-> <<>>,
      exitCode |-> 0 - 1 ]

\* A logger whose debug lines go to the destination of the output instead of
\* standard error.
DebugOnStdout(r, msg) ==
    IF r.level = "debug" THEN [r EXCEPT !.dest = Append(@, msg)] ELSE r

\* logrus.Debug / Debugf: a line on standard error when the level is debug.
Debug(r, msg) ==
    IF r.level = "debug" THEN [r EXCEPT !.log = Append(@, msg)] ELSE r

\* logrus.Fatal / Fatalf: the line is logged and the process exits with 1.
Fatal(r, msg) ==
    [r EXCEPT !.log = Append(@, msg), !.pc = "exit", !.exitCode = 1]

\* preload: --debug raises the log level; nothing else.
preload(r, e) ==
    [r EXCEPT !.level = IF e.debug THEN "debug" ELSE @, !.pc = "action"]

\* A nil-pointer panic ends the process with exit code 2.
Panic(r) == [r EXCEPT !.err = "panic", !.pc = "exit", !.exitCode = 2]

\* ioutil.ReadAll(inputFile) and the return of readInput.
ReadAll(r, e) ==
    IF e.readFails
    THEN [Debug(r, "cannot read file") EXCEPT !.err = "read"]
    ELSE [r EXCEPT !.fileContent = e.doc, !.err = "nil"]

\* readInput: the process after the call, err its error result.  The error
\* of os.Stdin.Stat() is dropped, so a failed Stat leaves a nil FileInfo
\* whose Mode() call panics.  "ExitError" is cli.NewExitError(..., 1) in
\* variant 2 and errors.New("not a pipe stdin") in variant 1.
readInput(r, e) ==
    IF e.inputPath = ""
    THEN IF e.stdin = "closed" THEN Panic(r)
         ELSE IF e.stdin = "pipe"
              THEN ReadAll([Debug(r, "no input path, using piped stdin")
                               EXCEPT !.stdinRead = TRUE], e)
              ELSE [r EXCEPT !.err = IF e.variant = 2 THEN "ExitError"
                                     ELSE "notpipe"]
    ELSE LET r1 == Debug(r, "input path")
         IN  IF e.inputPath = "missing.yaml"
             THEN [Debug(r1, "cannot open file") EXCEPT !.err = "open"]
             ELSE ReadAll([r1 EXCEPT !.fileRead = TRUE], e)

\* The number of bytes of content the destination takes.
Accepted(e, content) ==
    IF e.budget = NoLimit THEN Len(content) ELSE Min(e.budget, Len(content))

\* writeOutput: to standard output the bytes the descriptor takes are
\* written and fewer than all is an error; to a file ioutil.WriteFile
\* fails to open an unwritable path, else truncates the file, writes what
\* the file takes and reports fewer than all as an error.
writeOutput(r, e, content) ==
    LET n  == Accepted(e, content)
        r0 == [r EXCEPT !.writeCalls = @ + 1, !.outputContent = content]
    IN  IF e.outputPath = ""
        THEN LET r1 == [Debug(r0, "no output path, writing to stdout")
                           EXCEPT !.dest = @ \o SubSeq(content, 1, n)]
             IN  IF n < Len(content)
                 THEN [Debug(r1, "error writing to file") EXCEPT !.err = "write"]
                 ELSE [r1 EXCEPT !.err = "nil"]
        ELSE LET r1 == Debug(r0, "writing to file")
             IN  IF e.outputPath = "nodir/out.json"
                 THEN [Debug(r1, "error writing to file") EXCEPT !.err = "write"]
                 ELSE IF n < Len(content)
                      THEN [Debug(r1, "error writing to file")
                               EXCEPT !.dest = SubSeq(content, 1, n),
                                      !.err = "write"]
                      ELSE [r1 EXCEPT !.dest = content, !.err = "nil"]

(***************************************************************************)
(* The Action of the sub-command, statement by statement, and main.        *)
(***************************************************************************)
\* An error leaves the Action: variant 1 ends the process with
\* logrus.Fatal, variant 2 returns the error to app.Run.
Leave(r, e) ==
    IF e.variant = 1 THEN Fatal(r, r.err) ELSE [r EXCEPT !.pc = "return"]

\* fileContent, err := readInput(); if err != nil { ... }
ActionRead(r, e) ==
    LET r1 == readInput(r, e)
    IN  IF r1.pc = "exit" THEN r1
        ELSE IF r1.err # "nil" THEN Leave(r1, e)
        ELSE [r1 EXCEPT !.pc = "unmarshal"]

\* yaml2txt: decode into a map and render it with %v and a newline.
Yaml2txtUnmarshal(r, e) ==
    LET r1 == Debug(r, "unmarshalling")
        u  == UnmarshalMap(r.fileContent, IF e.variant = 1 THEN "int" ELSE "float")
    IN  IF u.err # "nil" THEN Leave([r1 EXCEPT !.err = u.err], e)
        ELSE [r1 EXCEPT !.object = u.object,
                        !.outputContent = FmtMap(u.object) \o <<"\n">>,
                        !.pc = "write"]

\* A yaml2json decode step without the object == nil test: every decoded
\* object goes to the jsonpath template.
Yaml2jsonUnmarshalNoNilTest(r, e) ==
    LET r1 == Debug(r, "Unmarshal to an object")
        u  == UnmarshalObject(r.fileContent)
    IN  IF u.err # "nil" THEN Leave([r1 EXCEPT !.err = u.err], e)
        ELSE [r1 EXCEPT !.object = u.object, !.pc = "parse"]

\* yaml2json: decode into an interface{}; a nil object goes straight to
\* writeOutput([]byte{}), every other object to the jsonpath template.
Yaml2jsonUnmarshal(r, e) ==
    LET r1 == Debug(r, "Unmarshal to an object")
        u  == UnmarshalObject(r.fileContent)
    IN  IF u.err # "nil" THEN Leave([r1 EXCEPT !.err = u.err], e)
        ELSE IF u.object.t = "nil"
             THEN [r1 EXCEPT !.object = u.object, !.outputContent = <<>>,
                             !.pc = "write"]
             ELSE [r1 EXCEPT !.object = u.object, !.pc = "parse"]

ActionUnmarshal(r, e) ==
    IF e.cmd = "yaml2txt" THEN Yaml2txtUnmarshal(r, e)
    ELSE Yaml2jsonUnmarshal(r, e)

\* j := jsonpath.New("out"); if err := j.Parse(tmpl); err != nil { ... }
ActionParse(r, e) ==
    LET pr == JSONPathParse(tmpl)
        r1 == [r EXCEPT !.parsed = TRUE]
    IN  IF pr.err # "nil" THEN Leave([r1 EXCEPT !.err = pr.err], e)
        ELSE [Debug(r1, "JSON Path template") EXCEPT !.pc = "execute"]

\* buffer := bytes.NewBuffer(nil); if err := j.Execute(buffer, object) ...
\* jsonContent = buffer.Bytes()
ActionExecute(r, e) ==
    LET x  == JSONPathExecute(r.object, JSONPathParse(tmpl).field)
        r1 == [r EXCEPT !.executed = TRUE]
    IN  IF x.err # "nil"
        THEN Leave([Debug(r1, "Error executing template") EXCEPT !.err = x.err], e)
        ELSE [Debug(r1, "JSON") EXCEPT !.outputContent = x.out, !.pc = "write"]

\* return writeOutput(outputContent)
ActionWrite(r, e) ==
    [writeOutput(r, e, r.outputContent) EXCEPT !.pc = "return"]

\* cli.OsExiter (variant 2): a debug line for a non-zero code, then os.Exit.
OsExiter(r, c) ==
    [(IF c # 0 THEN Debug(r, "exiting with") ELSE r)
        EXCEPT !.pc = "exit", !.exitCode = c]

\* The Action has returned r.err to app.Run.  The cli library ends the
\* process through cli.OsExiter only for an error that carries an exit code
\* (an ExitCoder) and hands every other error back to main.  Variant 1's main
\* ends with logrus.Fatal(err); variant 2's main prints "ERROR: ..." on
\* cli.ErrWriter and returns, so the process exits with 0.
AppRun(r, e) ==
    IF r.err = "nil" THEN [r EXCEPT !.pc = "exit", !.exitCode = 0]
    ELSE IF r.err = "ExitError"
         THEN OsExiter([r EXCEPT !.errw = Append(@, "Expected a pipe stdin")], 1)
    ELSE IF e.variant = 1 THEN Fatal(r, r.err)
    ELSE [r EXCEPT !.errw = Append(@, "ERROR"), !.pc = "exit", !.exitCode = 0]

\* One statement of the process at r.pc.
Step(r, e) ==
    CASE r.pc = "preload" -> preload(r, e)
      [] r.pc = "action" -> ActionRead(r, e)
      [] r.pc = "unmarshal" -> ActionUnmarshal(r, e)
      [] r.pc = "parse" -> ActionParse(r, e)
      [] r.pc = "execute" -> ActionExecute(r, e)
      [] r.pc = "write" -> ActionWrite(r, e)
      [] r.pc = "return" -> AppRun(r, e)
      [] OTHER -> r

(***************************************************************************)
(* Specification of one run.                                               *)
(***************************************************************************)
Init == env \in Envs /\ run = InitRun /\ twin = InitRun

Preload ==
    run.pc = "preload" /\ run' = preload(run, env) /\ UNCHANGED <<env, twin>>

ReadInput ==
    run.pc = "action" /\ run' = ActionRead(run, env) /\ UNCHANGED <<env, twin>>

Unmarshal ==
    run.pc = "unmarshal" /\ run' = ActionUnmarshal(run, env)
    /\ UNCHANGED <<env, twin>>

Parse ==
    run.pc = "parse" /\ run' = ActionParse(run, env) /\ UNCHANGED <<env, twin>>

Execute ==
    run.pc = "execute" /\ run' = ActionExecute(run, env)
    /\ UNCHANGED <<env, twin>>

WriteOutput ==
    run.pc = "write" /\ run' = ActionWrite(run, env) /\ UNCHANGED <<env, twin>>

Return ==
    run.pc = "return" /\ run' = AppRun(run, env) /\ UNCHANGED <<env, twin>>

Next ==
    \/ Preload
    \/ ReadInput
    \/ Unmarshal
    \/ Parse
    \/ Execute
    \/ WriteOutput
    \/ Return

Spec == Init /\ [][Next]_vars

(***************************************************************************)
(* Two runs side by side on the same command line, input and file system,  *)
(* twin with the --debug flag the other way round.                         *)
(***************************************************************************)
Flip(e) == [e EXCEPT !.debug = ~@]

BothStep ==
    /\ run.pc # "exit" \/ twin.pc # "exit"
    /\ run' = Step(run, env)
    /\ twin' = Step(twin, Flip(env))
    /\ UNCHANGED env

NextDebug == BothStep

SpecDebug == Init /\ [][NextDebug]_vars

(***************************************************************************)
(* Vocabulary of the properties.                                           *)
(***************************************************************************)
Done == run.pc = "exit"

\* Some stage of the run failed: an error (or a panic) is in hand.
StageFailed == run.err # "nil"

\* The errors readInput and the decoder produce.
InputErrors == {"ExitError", "notpipe", "open", "read", "panic"}

\* readInput has been called and has ended.
AfterRead == run.pc \notin {"preload", "action"}

\* The input was read and decoded without error.
PastDecode ==
    /\ run.pc \in {"parse", "execute", "write", "return", "exit"}
    /\ run.err \notin InputErrors \cup {"unmarshal"}

\* The decoded root is a mapping.
RootIsMap == PastDecode /\ run.object.t = "map"

\* The values the root mapping holds under foo.
AtFoo == Lookup(run.object.kvs, foo)

RECURSIVE Json(_)
\* The JSON encoding of a value (encoding/json: no spaces, keys sorted).
Json(v) ==
    LET RECURSIVE Elems(_)
        Elems(es) ==
            IF es = <<>> THEN <<>>
            ELSE Json(Head(es))
                 \o (IF Len(es) > 1 THEN <<",">> ELSE <<>>)
                 \o Elems(Tail(es))
        RECURSIVE Pairs(_)
        Pairs(kvs) ==
            IF kvs = <<>> THEN <<>>
            ELSE <<"\"">> \o Head(kvs).k \o <<"\"", ":">> \o Json(Head(kvs).v)
                 \o (IF Len(kvs) > 1 THEN <<",">> ELSE <<>>)
                 \o Pairs(Tail(kvs))
    IN  CASE v.t = "nil" -> <<"n", "u", "l", "l">>
          [] v.t \in {"int", "float"} -> Digits(v.n)
          [] v.t = "str" -> <<"\"">> \o v.s \o <<"\"">>
          [] v.t = "bool" -> IF v.b THEN <<"t", "r", "u", "e">>
                             ELSE <<"f", "a", "l", "s", "e">>
          [] v.t = "seq" -> <<"[">> \o Elems(v.es) \o <<"]">>
          [] v.t = "map" -> <<"{">> \o Pairs(v.kvs) \o <<"}">>

(***************************************************************************)
(* The properties.                                                         *)
(***************************************************************************)
\* C1: a run ends with exit code zero exactly when no stage failed: every
\* failed stage (input, decoding, path-query, output) gives a non-zero exit
\* code, whatever error value the Action returned.
C1_ExitCodeTellsFailure == Done => (run.exitCode = 0 <=> ~StageFailed)

\* C2: yaml2json on a mapping that does not hold the selected key writes
\* exactly zero bytes and succeeds: no error, exit code zero.
C2_AbsentKeyIsEmptySuccess ==
    (Done /\ env.cmd = "yaml2json" /\ RootIsMap /\ AtFoo = <<>>)
        => (run.err = "nil" /\ run.exitCode = 0 /\ run.dest = <<>>)

\* C3: yaml2json on a mapping that holds the selected key with a null value
\* writes the JSON token null, and a successful run writes zero bytes only
\* when the key is absent.
C3_PresentNullIsJsonNull ==
    (Done /\ env.cmd = "yaml2json" /\ RootIsMap /\ AtFoo # <<>> /\ ~StageFailed)
        => /\ run.dest # <<>>
           /\ AtFoo[1].t = "nil" => run.dest = <<"n", "u", "l", "l">>

\* C4: no path-query is given (yaml2json has no such flag), so what a
\* successful yaml2json run serializes is the whole decoded root: the bytes
\* handed to writeOutput render the root itself, not a field of it.
C4_WholeRootSerialized ==
    (env.cmd = "yaml2json" /\ PastDecode /\ run.object.t # "nil"
     /\ run.writeCalls > 0)
        => run.outputContent \in {Json(run.object), Fmt(run.object)}

\* C5: when the query matches exactly one scalar, the bytes yaml2json writes
\* are that scalar's bare JSON literal: a number as its digits, a string as
\* a quoted JSON string, a boolean as true or false.
C5_ScalarIsJsonLiteral ==
    (Done /\ env.cmd = "yaml2json" /\ RootIsMap /\ AtFoo # <<>> /\ ~StageFailed)
        => (AtFoo[1].t \in {"int", "float", "str", "bool"}
                => run.dest = Json(AtFoo[1]))

\* C7: with no input path and a standard input that is not a pipe, readInput
\* returns an error without reading standard input; standard input is read
\* only when it is a pipe and no input path is set; a given input path is
\* read in preference to standard input.
C7_ReadInputSource ==
    /\ (AfterRead /\ env.inputPath = "" /\ env.stdin # "pipe")
         => (run.err \in {"ExitError", "notpipe"} /\ ~run.stdinRead)
    /\ run.stdinRead => (env.stdin = "pipe" /\ env.inputPath = "")
    /\ (AfterRead /\ env.inputPath # "")
         => (~run.stdinRead /\ (run.fileRead \/ run.err = "open"))

\* C8: writeOutput is called at most once and only after reading, decoding
\* and the query succeeded, and a run that ends in an error has left no
\* byte in the destination, also when the write itself fails or is short.
C8_NoPartialOutput ==
    /\ run.writeCalls <= 1
    /\ run.writeCalls = 1 => (PastDecode /\ run.err \in {"nil", "write"})
    /\ (Done /\ StageFailed) => run.dest = <<>>

\* C9: --debug does not change the result: the run and its twin with the
\* flag reversed are at the same position with the same bytes in the
\* destination, the same error and the same exit code.
C9_DebugHasNoEffect ==
    /\ run.pc = twin.pc
    /\ run.dest = twin.dest
    /\ run.outputContent = twin.outputContent
    /\ run.writeCalls = twin.writeCalls
    /\ run.err = twin.err
    /\ run.exitCode = twin.exitCode

\* The two runs have ended, output was written, and the debug run logged.
C9_Witness ==
    /\ run.pc = "exit" /\ twin.pc = "exit"
    /\ env.cmd = "yaml2json" /\ run.dest # <<>>
    /\ run.log # twin.log

\* C10: in yaml2json a nil root is written as zero bytes by one writeOutput
\* call whose result is the result of the run, with the path-query neither
\* parsed nor executed; a non-nil root has the query parsed and executed
\* before anything is written.
C10_NilRootSkipsQuery ==
    (env.cmd = "yaml2json" /\ PastDecode) =>
        /\ run.object.t = "nil" =>
             /\ ~run.parsed /\ ~run.executed
             /\ run.pc \in {"write", "return", "exit"}
             /\ run.pc # "write" =>
                  /\ run.writeCalls = 1
                  /\ run.outputContent = <<>> /\ run.dest = <<>>
                  /\ run.err = (IF env.outputPath = "nodir/out.json"
                                THEN "write" ELSE "nil")
        /\ run.object.t # "nil" =>
             /\ run.pc \in {"write", "return", "exit"}
                    => (run.parsed /\ run.executed)
             /\ run.writeCalls > 0 => (run.parsed /\ run.executed)

\* A nil root has been written and the run has ended.
C10_Witness ==
    /\ Done /\ env.cmd = "yaml2json" /\ PastDecode
    /\ run.object.t = "nil" /\ run.writeCalls = 1

====
